---------------------------- MODULE Spec2Model ----------------------------
(***************************************************************************)
(* A model of SoftLayer/transports.py: the Request descriptor, the         *)
(* XML-RPC and REST transports (wire framing, verb inference, pagination,  *)
(* fault mapping, list results), the object-mask formatter and the         *)
(* TimingTransport decorator.                                              *)
(*                                                                         *)
(* Python values are encoded as follows.                                   *)
(*   None / optional   <<>> is None, <<v>> is the value v                  *)
(*   str (masks, header values)  a sequence of one-character strings       *)
(*   int-or-str values (fault codes, error codes)  a tagged record, see    *)
(*                      PyInt and PyStr: an int never equals a str         *)
(*   dict              a function from keys to values                      *)
(***************************************************************************)
EXTENDS Integers, Sequences, FiniteSets, TLC

VARIABLES
    objectmask,    \* _format_object_mask: the argument of the call
    formatted,     \* _format_object_mask: None, or <<the returned string>>
    request,       \* the Request handed to XmlRpcTransport / RestTransport
    response,      \* what the endpoint answers to the HTTP request it is sent
    wire,          \* the last client.request(...) call made, or None
    outcome,       \* how the last transport call ended (return / raise)
    transports,    \* the XmlRpcTransport and the RestTransport instance
    sessions,      \* the clients get_session has built, in order
    conn,          \* client.request in progress: the adapter's retry state
    last_calls,    \* TimingTransport.last_calls
    inner_calls,   \* calls received by the transport TimingTransport wraps
    timing_outcome,\* how the last TimingTransport call / retrieval ended
    sent,          \* history: calls made through TimingTransport since the
                   \* last get_last_calls, with whether each one returned
    clock,         \* time.time()
    threads        \* threads sharing one TimingTransport: the list objects,
                   \* self.last_calls, and where each thread stands

vars == <<objectmask, formatted, request, response, wire, outcome,
          transports, sessions, conn, last_calls, inner_calls, timing_outcome, sent, clock,
          threads>>

maskVars == <<objectmask, formatted>>
sendVars == <<request, response, wire, outcome, transports, sessions, conn>>
timingVars == <<last_calls, inner_calls, timing_outcome, sent, clock, threads>>

None == <<>>
Some(v) == <<v>>

\* Python truthiness of an optional int: `if request.limit:`
Truthy(opt) == opt # None /\ opt[1] # 0

\* Python `opt or 0` for an optional int.
OrZero(opt) == IF Truthy(opt) THEN opt[1] ELSE 0

PyInt(i) == [type |-> "int", int |-> i, str |-> ""]
PyStr(s) == [type |-> "str", int |-> 0, str |-> s]

(***************************************************************************)
(* Bounds of the model.                                                    *)
(***************************************************************************)
MaxMaskLen == 5
MaxArgs == 2
MaxLimit == 2
MaxOffset == 1
MaxHeaderLen == 2
MaxCalls == 3
MaxElapsed == 1
MaxThreadCalls == 2
MaxThreadRetrievals == 2

RECURSIVE SeqsUpTo(_, _)
SeqsUpTo(S, n) ==
    IF n = 0 THEN {<<>>}
    ELSE LET shorter == SeqsUpTo(S, n - 1)
         IN  shorter \cup {Append(s, c) : s \in {t \in shorter : Len(t) = n - 1}, c \in S}

(***************************************************************************)
(* Strings: str.strip() and str.startswith().                              *)
(***************************************************************************)
Whitespace == {" "}

RECURSIVE lstrip(_)
lstrip(s) ==
    IF s # <<>> /\ Head(s) \in Whitespace THEN lstrip(Tail(s)) ELSE s

RECURSIVE rstrip(_)
rstrip(s) ==
    IF s # <<>> /\ s[Len(s)] \in Whitespace
    THEN rstrip(SubSeq(s, 1, Len(s) - 1))
    ELSE s

strip(s) == rstrip(lstrip(s))

startswith(s, prefix) ==
    /\ Len(s) >= Len(prefix)
    /\ SubSeq(s, 1, Len(prefix)) = prefix

(***************************************************************************)
(* _format_object_mask (transports.py 403-416).                            *)
(***************************************************************************)
\* The same without the test of lines 413-414: every mask is wrapped.
mask_alwayswrap(om) == <<"m", "a", "s", "k", "[">> \o strip(om) \o <<"]">>

\* The same without the strip() of line 412.
mask_nostrip(om) ==
    IF ~startswith(om, <<"m", "a", "s", "k">>) /\ ~startswith(om, <<"[">>)
    THEN <<"m", "a", "s", "k", "[">> \o om \o <<"]">>
    ELSE om

_format_object_mask(om) ==
    LET stripped == strip(om)
    IN  IF /\ ~startswith(stripped, <<"m", "a", "s", "k">>)
           /\ ~startswith(stripped, <<"[">>)
        THEN <<"m", "a", "s", "k", "[">> \o stripped \o <<"]">>
        ELSE stripped


(***************************************************************************)
(* dict helpers: d[k] = v, d.setdefault(k, v), d.get(k, default).          *)
(***************************************************************************)
EmptyDict == <<>>

Put(d, k, v) == [x \in (DOMAIN d) \cup {k} |-> IF x = k THEN v ELSE d[x]]

SetDefault(d, k, v) == IF k \in DOMAIN d THEN d ELSE Put(d, k, v)

Update(d, e) == [x \in (DOMAIN d) \cup (DOMAIN e) |-> IF x \in DOMAIN e THEN e[x] ELSE d[x]]

(***************************************************************************)
(* Request (transports.py 57-101): the fields as __init__ sets them.       *)
(***************************************************************************)
Request ==
    [service |-> None, method |-> None, args |-> <<>>, headers |-> EmptyDict,
     transport_user |-> None, transport_password |-> None,
     transport_headers |-> EmptyDict, verify |-> None, cert |-> None,
     identifier |-> None, mask |-> None, filter |-> None,
     limit |-> None, offset |-> None]

\* A mask is a str or a dict.
StrMask(s) == [type |-> "str", str |-> s, dict |-> EmptyDict]
DictMask(d) == [type |-> "dict", str |-> <<>>, dict |-> d]

(***************************************************************************)
(* REST_SPECIAL_METHODS (transports.py 34-40).                             *)
(***************************************************************************)
REST_SPECIAL_METHODS ==
    [deleteObject |-> "DELETE", createObject |-> "POST", createObjects |-> "POST",
     editObject |-> "PUT", editObjects |-> "PUT"]

(***************************************************************************)
(* The transport instances (transports.py 118-126, 229-236): the values    *)
(* their constructors were given.                                          *)
(***************************************************************************)
XmlRpcEndpoint == "https://api.example/xmlrpc/v3.1"
RestEndpoint == "https://api.example/rest/v3.1"
UserAgent == "softlayer-python"

\* Retry(total, connect, backoff_factor): an absent count is None.
\* Retry() has total=10 and no status_forcelist; the adapter a Session
\* starts with has Retry(0, read=False).
Retry(total, connect, backoff_factor) ==
    [total |-> total, connect |-> connect, backoff_factor |-> backoff_factor,
     status_forcelist |-> {}]

\* get_session allowing one connection retry more.
get_session_connect4(user_agent) ==
    [headers |-> ("Content-Type" :> "application/json" @@ "User-Agent" :> user_agent),
     adapters |-> ("https://" :> Retry(10, Some(4), 3) @@ "http://" :> Retry(0, None, 0))]

\* get_session (43-54): the default headers, and the retry policy of the
\* adapter serving each URL prefix.  requests.Session() starts with an
\* adapter without retries on both prefixes; the Retry(connect=3,
\* backoff_factor=3) adapter is mounted on 'https://' alone.
get_session(user_agent) ==
    [headers |-> ("Content-Type" :> "application/json" @@ "User-Agent" :> user_agent),
     adapters |-> ("https://" :> Retry(10, Some(3), 3) @@ "http://" :> Retry(0, None, 0))]

\* __init__ (118-126 and 228-236): a transport instance.  _client is None
\* or <<i>>, the i-th client get_session built.
Transport(verify) == [verify |-> verify, _client |-> None]

\* The client property caching nothing.
client_nocache(self, fresh) == [self EXCEPT !._client = Some(fresh)]

\* The client property (128-134 and 238-244): the instance after the
\* property ran, `fresh` being the client get_session would build.
client(self, fresh) ==
    IF self._client = None THEN [self EXCEPT !._client = Some(fresh)] ELSE self

(***************************************************************************)
(* SoftLayerListResult (transports.py 104-113) and how a call ends.        *)
(***************************************************************************)
NoOutcome ==
    [kind |-> "none", exc |-> "", code |-> None, message |-> "",
     type |-> "", items |-> <<>>, total_count |-> 0]

SoftLayerListResult(items, total_count) ==
    [kind |-> "return", exc |-> "", code |-> None, message |-> "",
     type |-> "SoftLayerListResult", items |-> items, total_count |-> total_count]

\* A decoded result that is not a list is returned as it is.
ReturnValue(result) ==
    [kind |-> "return", exc |-> "", code |-> None, message |-> "",
     type |-> "value", items |-> result, total_count |-> 0]

\* raise cls(code, message)
Raise(cls, code, message) ==
    [kind |-> "raise", exc |-> cls, code |-> Some(code), message |-> message,
     type |-> "", items |-> <<>>, total_count |-> 0]

\* An exception the transport does not catch, which reaches the caller as it is.
Uncaught(cls) ==
    [kind |-> "raise", exc |-> cls, code |-> None, message |-> "",
     type |-> "", items |-> <<>>, total_count |-> 0]

(***************************************************************************)
(* The HTTP response.  net = "fail" is a requests.RequestException raised  *)
(* by client.request (connection, DNS, timeout).  format tells which       *)
(* decoder can read the body: "xmlrpc", "json" or neither.                 *)
(***************************************************************************)
NoResponse ==
    [net |-> "none", status |-> 0, format |-> "", type |-> "", code |-> PyInt(0),
     string |-> "", items |-> <<>>, total_items |-> None]

NetworkFailure == [NoResponse EXCEPT !.net = "fail"]

HttpResponse(status, format, type, total_items) ==
    [NoResponse EXCEPT !.net = "ok", !.status = status, !.format = format,
                       !.type = type, !.total_items = total_items]

FaultResponse(status, faultCode, faultString) ==
    [HttpResponse(status, "xmlrpc", "fault", None) EXCEPT !.code = faultCode, !.string = faultString]

ListResponse(format, items, total_items) ==
    [HttpResponse(200, format, "list", total_items) EXCEPT !.items = items]

ErrorResponse(status, message) ==
    [HttpResponse(status, "json", "error", None) EXCEPT !.string = message]

\* Response.raise_for_status(): requests raises HTTPError for 4xx and 5xx.
RaisesForStatus(resp) == resp.status >= 400 /\ resp.status < 600

(***************************************************************************)
(* int(resp.headers.get('softlayer-total-items', 0))                       *)
(* (transports.py 196 and 326).  A header value is a str; int() of a str   *)
(* that is not a decimal numeral raises ValueError.                        *)
(***************************************************************************)
Digits == {"0", "1", "2", "3", "4", "5", "6", "7", "8", "9"}

DigitValue(c) ==
    CASE c = "0" -> 0 [] c = "1" -> 1 [] c = "2" -> 2 [] c = "3" -> 3 [] c = "4" -> 4
      [] c = "5" -> 5 [] c = "6" -> 6 [] c = "7" -> 7 [] c = "8" -> 8 [] c = "9" -> 9

IsDecimal(s) == s # <<>> /\ \A i \in 1..Len(s) : s[i] \in Digits

RECURSIVE ParseDecimal(_, _)
ParseDecimal(s, acc) ==
    IF s = <<>> THEN acc ELSE ParseDecimal(Tail(s), 10 * acc + DigitValue(Head(s)))

\* The same with a default of 1 for the absent header.
TotalCount_default1(headers_total_items) ==
    IF headers_total_items = None THEN Some(1)
    ELSE IF IsDecimal(headers_total_items[1])
         THEN Some(ParseDecimal(headers_total_items[1], 0))
         ELSE None

\* None when int() raises ValueError, else <<the int>>.
TotalCount(headers_total_items) ==
    IF headers_total_items = None THEN Some(0)
    ELSE IF IsDecimal(headers_total_items[1])
         THEN Some(ParseDecimal(headers_total_items[1], 0))
         ELSE None

\* transports.py 194-198 and 324-328.
DecodedResult(resp) ==
    IF resp.type = "list"
    THEN IF TotalCount(resp.total_items) = None
         THEN Uncaught("ValueError")
         ELSE SoftLayerListResult(resp.items, TotalCount(resp.total_items)[1])
    ELSE ReturnValue(resp.items)

(***************************************************************************)
(* _format_object_mask_xmlrpc (transports.py 387-400): the header a mask   *)
(* becomes, as a one-entry dict.                                           *)
(***************************************************************************)
\* The same with the service's header name for a str mask too.
xmlrpc_mask_servicekey(om, service) ==
    IF om.type = "dict"
    THEN (service \o "ObjectMask") :> [mask |-> om]
    ELSE (service \o "ObjectMask") :> [mask |-> StrMask(_format_object_mask(om.str))]

_format_object_mask_xmlrpc(om, service) ==
    IF om.type = "dict"
    THEN (service \o "ObjectMask") :> [mask |-> om]
    ELSE "SoftLayer_ObjectMask" :> [mask |-> StrMask(_format_object_mask(om.str))]

(***************************************************************************)
(* XmlRpcTransport.__call__ (transports.py 136-219).                       *)
(***************************************************************************)
\* The same with `request.offset or 1`.
resultLimit_offsetone(req) ==
    IF Truthy(req.limit)
    THEN Some([limit |-> req.limit[1], offset |-> IF Truthy(req.offset) THEN req.offset[1] ELSE 1])
    ELSE None

\* 156-160: the resultLimit header, None when no header is set.
resultLimit(req) ==
    IF Truthy(req.limit)
    THEN Some([limit |-> req.limit[1], offset |-> OrZero(req.offset)])
    ELSE None

\* The same with `if request.identifier:` at line 145.
XmlRpcHeaders_truthyid(req) ==
    LET h0 == req.headers
        h1 == IF Truthy(req.identifier)
              THEN Put(h0, req.service \o "InitParameters", [id |-> req.identifier[1]])
              ELSE h0
        h2 == IF req.mask # None
              THEN Update(h1, _format_object_mask_xmlrpc(req.mask[1], req.service))
              ELSE h1
        h3 == IF req.filter # None
              THEN Put(h2, req.service \o "ObjectFilter", req.filter[1])
              ELSE h2
    IN  IF resultLimit(req) # None
        THEN Put(h3, "resultLimit", resultLimit(req)[1])
        ELSE h3

\* 143-160: `headers` is request.headers itself, not a copy.
XmlRpcHeaders(req) ==
    LET h0 == req.headers
        h1 == IF req.identifier # None
              THEN Put(h0, req.service \o "InitParameters", [id |-> req.identifier[1]])
              ELSE h0
        h2 == IF req.mask # None
              THEN Update(h1, _format_object_mask_xmlrpc(req.mask[1], req.service))
              ELSE h1
        h3 == IF req.filter # None
              THEN Put(h2, req.service \o "ObjectFilter", req.filter[1])
              ELSE h2
    IN  IF resultLimit(req) # None
        THEN Put(h3, "resultLimit", resultLimit(req)[1])
        ELSE h3

\* 163-164
XmlRpcTransportHeaders(req) ==
    SetDefault(SetDefault(req.transport_headers, "Content-Type", "application/xml"),
               "User-Agent", UserAgent)

\* `request.verify or self.verify`: a verify of False counts as unset.
Verify_truthy(self, req) ==
    IF req.verify # None /\ req.verify[1] THEN req.verify[1] ELSE self.verify

\* 172-174 and 300-302
Verify(self, req) == IF req.verify = None THEN self.verify ELSE req.verify[1]

NoWire ==
    [transport |-> "none", verb |-> "", url |-> "", methodname |-> "", largs |-> <<>>,
     params |-> EmptyDict, data |-> None, headers |-> EmptyDict, verify |-> TRUE,
     auth |-> None, cert |-> None, client |-> None]

\* 141, 162-188: the arguments of client.request; the payload is the
\* XML-RPC envelope of methodname and largs.
XmlRpcWire(self, req) ==
    [NoWire EXCEPT
        !.client = self._client,
        !.transport = "xmlrpc",
        !.verb = "POST",
        !.url = XmlRpcEndpoint \o "/" \o req.service,
        !.methodname = req.method,
        !.largs = <<[headers |-> XmlRpcHeaders(req)]>> \o req.args,
        !.headers = XmlRpcTransportHeaders(req),
        !.verify = Verify(self, req),
        !.cert = req.cert]

\* 202-213: the keys are str.
error_mapping ==
    "-32700" :> "NotWellFormed" @@ "-32701" :> "UnsupportedEncoding" @@
    "-32702" :> "InvalidCharacter" @@ "-32600" :> "SpecViolation" @@
    "-32601" :> "MethodNotFound" @@ "-32602" :> "InvalidMethodParameters" @@
    "-32603" :> "InternalError" @@ "-32500" :> "ApplicationError" @@
    "-32400" :> "RemoteSystemError" @@ "-32300" :> "TransportError"

\* 199-215: error_mapping.get(ex.faultCode, SoftLayerAPIError): a dict with
\* str keys holds no int key.
FaultError(faultCode, faultString) ==
    LET _ex == IF faultCode.type = "str" /\ faultCode.str \in DOMAIN error_mapping
               THEN error_mapping[faultCode.str]
               ELSE "SoftLayerAPIError"
    IN  Raise(_ex, faultCode, faultString)

\* The body decoded before raise_for_status() is called.
XmlRpcOutcome_decodefirst(resp) ==
    IF resp.net = "fail" THEN Raise("TransportError", PyInt(0), "str(ex)")
    ELSE IF resp.format = "xmlrpc" /\ resp.type = "fault" THEN FaultError(resp.code, resp.string)
    ELSE IF RaisesForStatus(resp) THEN Raise("TransportError", PyInt(resp.status), "str(ex)")
    ELSE IF resp.format # "xmlrpc" THEN Uncaught("ExpatError")
    ELSE DecodedResult(resp)

\* The except clauses in the other order: HTTPError is a RequestException.
XmlRpcOutcome_exceptorder(resp) ==
    IF resp.net = "fail" \/ RaisesForStatus(resp)
    THEN Raise("TransportError", PyInt(0), "str(ex)")
    ELSE IF resp.format # "xmlrpc" THEN Uncaught("ExpatError")
    ELSE IF resp.type = "fault" THEN FaultError(resp.code, resp.string)
    ELSE DecodedResult(resp)

\* 181-219
XmlRpcOutcome(resp) ==
    IF resp.net = "fail" THEN Raise("TransportError", PyInt(0), "str(ex)")
    ELSE IF RaisesForStatus(resp) THEN Raise("TransportError", PyInt(resp.status), "str(ex)")
    ELSE IF resp.format # "xmlrpc" THEN Uncaught("ExpatError")
    ELSE IF resp.type = "fault" THEN FaultError(resp.code, resp.string)
    ELSE DecodedResult(resp)

(***************************************************************************)
(* RestTransport.__call__ (transports.py 246-334).                         *)
(***************************************************************************)
JsonDumps(v) == [json |-> v]

\* `if request.mask:` / `if request.filter:`: not None and not empty.
NonEmptyMask(req) ==
    req.mask # None /\ (IF req.mask[1].type = "str" THEN req.mask[1].str # <<>>
                        ELSE req.mask[1].dict # EmptyDict)

\* 254-265: a copy of request.headers, plus the query parameters.
RestParams(req) ==
    LET p0 == req.headers
        p1 == IF NonEmptyMask(req)
              THEN Put(p0, "objectMask", _format_object_mask(req.mask[1].str))
              ELSE p0
        p2 == IF Truthy(req.limit) THEN Put(p1, "limit", req.limit[1]) ELSE p1
        p3 == IF Truthy(req.offset) THEN Put(p2, "offset", req.offset[1]) ELSE p2
    IN  IF req.filter # None /\ req.filter[1] # EmptyDict
        THEN Put(p3, "objectFilter", JsonDumps(req.filter[1]))
        ELSE p3

\* The same without the `if request.args:` of lines 280-283.
RestVerb_tableonly(req) ==
    IF req.method \in DOMAIN REST_SPECIAL_METHODS
    THEN REST_SPECIAL_METHODS[req.method]
    ELSE "GET"

\* 274-284
RestVerb(req) ==
    LET method == IF req.method \in DOMAIN REST_SPECIAL_METHODS
                  THEN REST_SPECIAL_METHODS[req.method]
                  ELSE "GET"
    IN  IF req.args # <<>> THEN "POST" ELSE method

\* 279-288: raw_body, None when there are no args.
RestBody(req) ==
    IF req.args # <<>> THEN Some(JsonDumps([parameters |-> req.args])) ELSE None

\* 290-297
RestUrl(req) ==
    RestEndpoint \o "/" \o req.service
        \o (IF req.identifier # None THEN "/" \o ToString(req.identifier[1]) ELSE "")
        \o "/" \o req.method \o ".json"

\* 267-272
RestAuth(req) ==
    IF req.transport_user # None
    THEN Some(<<req.transport_user[1], req.transport_password>>)
    ELSE None

\* 309-317: the arguments of client.request.
RestWire(self, req) ==
    [NoWire EXCEPT
        !.client = self._client,
        !.transport = "rest",
        !.verb = RestVerb(req),
        !.url = RestUrl(req),
        !.params = RestParams(req),
        !.data = RestBody(req),
        !.headers = req.transport_headers,
        !.verify = Verify(self, req),
        !.auth = RestAuth(req),
        !.cert = req.cert]

\* The HTTPError handled as XmlRpcTransport handles it.
RestHttpError_astransport(resp) ==
    Raise("TransportError", PyInt(resp.status), "str(ex)")

\* 329-332: json.loads(ex.response.text)['error'] of the HTTPError.
RestHttpError(resp) ==
    IF resp.format # "json" THEN Uncaught("ValueError")
    ELSE IF resp.type = "error" THEN Raise("SoftLayerAPIError", PyInt(resp.status), resp.string)
    ELSE IF resp.type = "list" THEN Uncaught("TypeError")
    ELSE Uncaught("KeyError")

\* 255-256: _format_object_mask calls objectmask.strip(), which a dict
\* does not have: the call ends there, before any request is made.
RestMaskFails(req) == NonEmptyMask(req) /\ req.mask[1].type = "dict"

\* 308-334
RestOutcome(resp) ==
    IF resp.net = "fail" THEN Raise("TransportError", PyInt(0), "str(ex)")
    ELSE IF RaisesForStatus(resp) THEN RestHttpError(resp)
    ELSE IF resp.format # "json" THEN Uncaught("ValueError")
    ELSE DecodedResult(resp)

(***************************************************************************)
(* The requests callers build and the responses endpoints give.            *)
(***************************************************************************)
Methods ==
    {"deleteObject", "createObject", "createObjects", "editObject", "editObjects",
     "getObject"}

ArgValues == {"a", "b"}

ArgTuples == SeqsUpTo(ArgValues, MaxArgs)

OptLimits == {None} \cup {Some(n) : n \in 0..MaxLimit}

OptOffsets == {None} \cup {Some(n) : n \in 0..MaxOffset}

BaseRequest == [Request EXCEPT !.service = "SoftLayer_Account", !.method = "getObject"]

VerbRequests == {[BaseRequest EXCEPT !.method = m, !.args = a] : m \in Methods, a \in ArgTuples}

PageRequests == {[BaseRequest EXCEPT !.limit = l, !.offset = o] : l \in OptLimits, o \in OptOffsets}

Masks == {None, Some(StrMask(<<"i", "d">>)), Some(StrMask(<<>>)), Some(DictMask([id |-> ""]))}

Filters == {None, Some(EmptyDict), Some([id |-> [operation |-> "x"]])}

FramingRequests ==
    {[BaseRequest EXCEPT !.identifier = i, !.mask = m, !.filter = f] :
        i \in {None, Some(0), Some(1234)}, m \in Masks, f \in Filters}

VerifyRequests == {[BaseRequest EXCEPT !.verify = Some(v)] : v \in BOOLEAN}

RequestSet == VerbRequests \cup PageRequests \cup FramingRequests \cup VerifyRequests

FaultCodeNumbers ==
    {-32700, -32701, -32702, -32600, -32601, -32602, -32603, -32500, -32400, -32300,
     -32000, 0}

\* A decoded faultCode is an int (<int> in the fault struct, as XML-RPC
\* defines it) or a str (<string>).
FaultCodes ==
    {PyInt(c) : c \in FaultCodeNumbers} \cup {PyStr(ToString(c)) : c \in FaultCodeNumbers}
        \cup {PyStr("SoftLayer_Exception_Public")}

FaultStrings == {"fault-a", "fault-b"}

HeaderChars == {"0", "1", "2", "x"}

TotalItemsHeaders == {None} \cup {Some(h) : h \in SeqsUpTo(HeaderChars, MaxHeaderLen)}

ItemLists == {<<>>, <<"item1", "item2">>}

ValueResponse(format) == [HttpResponse(200, format, "value", None) EXCEPT !.items = <<"value">>]

Garbage(status) == HttpResponse(status, "", "garbage", None)

XmlRpcResponses ==
    {NetworkFailure, Garbage(200), Garbage(500), ValueResponse("xmlrpc"),
     FaultResponse(500, PyStr("-32601"), "fault-a"),
     Garbage(300), [ValueResponse("xmlrpc") EXCEPT !.status = 300],
     FaultResponse(300, PyStr("-32601"), "fault-a")}
        \cup {FaultResponse(200, c, m) : c \in FaultCodes, m \in FaultStrings}
        \cup {ListResponse("xmlrpc", items, h) : items \in ItemLists, h \in TotalItemsHeaders}

RestResponses ==
    {NetworkFailure, Garbage(200), Garbage(500), ValueResponse("json"),
     ErrorResponse(404, "not found"), ErrorResponse(500, "boom"), ErrorResponse(200, "boom"),
     [ValueResponse("json") EXCEPT !.status = 500],
     [ListResponse("json", <<>>, None) EXCEPT !.status = 500],
     Garbage(300), ErrorResponse(300, "boom")}
        \cup {ListResponse("json", items, h) : items \in ItemLists, h \in TotalItemsHeaders}

(***************************************************************************)
(* Specification Spec: a caller builds a Request and sends it through an   *)
(* XmlRpcTransport and a RestTransport, any number of times.               *)
(***************************************************************************)
MaskIdle == objectmask = <<>> /\ formatted = None

\* How the last operation on the TimingTransport ended: a call with its
\* result, or get_last_calls with the list it returned.
NoTimingOutcome == [op |-> "none", call |-> Request, result |-> NoOutcome, value |-> <<>>]

Threads == {"t1", "t2"}

\* __init__ (340-342) seen by threads: heap[i] is the list object i,
\* last_calls the object self.last_calls refers to.  Every thread is
\* outside the TimingTransport.  A record is named by the number of the
\* call that built it.
NoThreads ==
    [heap |-> <<<<>>>>, last_calls |-> 1,
     pc |-> [t \in Threads |-> "idle"], local |-> [t \in Threads |-> 0],
     record |-> [t \in Threads |-> 0],
     calls |-> 0, retrievals |-> 0, completed |-> {}, returned |-> <<>>]

TimingIdle ==
    /\ last_calls = <<>>
    /\ inner_calls = <<>>
    /\ timing_outcome = NoTimingOutcome
    /\ sent = <<>>
    /\ clock = 0
    /\ threads = NoThreads

\* No client.request is being followed attempt by attempt.
NoConn ==
    [phase |-> "idle", prefix |-> "", via |-> "", retry |-> [total |-> 0, connect |-> None],
     attempts |-> 0, responses |-> 0]

NoSessions ==
    /\ conn = NoConn
    /\ transports \in {[xmlrpc |-> Transport(TRUE), rest |-> Transport(TRUE)]}
    /\ sessions = <<>>

SendIdle ==
    /\ request = Request
    /\ response = NoResponse
    /\ wire = NoWire
    /\ outcome = NoOutcome
    /\ NoSessions

Init ==
    /\ request \in RequestSet
    /\ response \in XmlRpcResponses \cup RestResponses
    /\ wire = NoWire
    /\ outcome = NoOutcome
    /\ transports \in {[xmlrpc |-> Transport(verify), rest |-> Transport(verify)] :
                            verify \in BOOLEAN}
    /\ sessions = <<>>
    /\ conn = NoConn
    /\ MaskIdle
    /\ TimingIdle

\* self.client (183 and 309): the instance after the property ran, and
\* the clients built so far.
UseClient(name) ==
    LET self == client(transports[name], Len(sessions) + 1)
    IN  /\ transports' = [transports EXCEPT ![name] = self]
        /\ sessions' = IF self._client = transports[name]._client
                       THEN sessions
                       ELSE Append(sessions, get_session(UserAgent))

\* XmlRpcTransport.__call__(request), the endpoint answering `response`.
XmlRpcTransport_call ==
    /\ request' = [request EXCEPT !.headers = XmlRpcHeaders(request),
                                  !.transport_headers = XmlRpcTransportHeaders(request)]
    /\ UseClient("xmlrpc")
    /\ wire' = XmlRpcWire(transports'.xmlrpc, request)
    /\ outcome' = XmlRpcOutcome(response)

\* RestTransport.__call__(request), the endpoint answering `response`.
RestTransport_call ==
    /\ request' = request
    /\ IF RestMaskFails(request)
       THEN /\ wire' = NoWire
            /\ outcome' = Uncaught("AttributeError")
            /\ UNCHANGED <<transports, sessions>>
       ELSE /\ UseClient("rest")
            /\ wire' = RestWire(transports'.rest, request)
            /\ outcome' = RestOutcome(response)

XmlRpcSend ==
    /\ XmlRpcTransport_call
    /\ UNCHANGED <<response, conn>>
    /\ UNCHANGED maskVars
    /\ UNCHANGED timingVars

RestSend ==
    /\ RestTransport_call
    /\ UNCHANGED <<response, conn>>
    /\ UNCHANGED maskVars
    /\ UNCHANGED timingVars

Next == XmlRpcSend \/ RestSend

Spec == Init /\ [][Next]_vars

(***************************************************************************)
(* Specification SpecMask: _format_object_mask applied to a string.        *)
(***************************************************************************)
MaskChars == {" ", "m", "a", "s", "k", "["}

InitMask ==
    /\ objectmask \in SeqsUpTo(MaskChars, MaxMaskLen)
    /\ formatted = None
    /\ SendIdle
    /\ TimingIdle

FormatObjectMask ==
    /\ formatted = None
    /\ formatted' = Some(_format_object_mask(objectmask))
    /\ UNCHANGED objectmask
    /\ UNCHANGED sendVars
    /\ UNCHANGED timingVars

\* _format_object_mask called with the string the last call returned.
FormatObjectMaskAgain ==
    /\ formatted # None
    /\ objectmask' = formatted[1]
    /\ formatted' = Some(_format_object_mask(formatted[1]))
    /\ UNCHANGED sendVars
    /\ UNCHANGED timingVars

NextMask == FormatObjectMask \/ FormatObjectMaskAgain

SpecMask == InitMask /\ [][NextMask]_vars

(***************************************************************************)
(* TimingTransport (transports.py 337-362).  The wrapped transport is any  *)
(* callable: what it does with a call is one of TransportOutcomes, and it  *)
(* takes `elapsed` on the clock.  inner_calls logs what it was handed.     *)
(***************************************************************************)
TimingCalls ==
    {[BaseRequest EXCEPT !.method = "getObject"], [BaseRequest EXCEPT !.method = "deleteObject"]}

TransportOutcomes ==
    {SoftLayerListResult(<<"item1", "item2">>, 2),
     Raise("TransportError", PyInt(0), "str(ex)"),
     Uncaught("NotImplementedError")}

\* The same, starting a new buffer on every call.
TimingTransport_call_clears(call, result, elapsed) ==
    /\ inner_calls' = Append(inner_calls, [call |-> call, result |-> result])
    /\ clock' = clock + elapsed
    /\ last_calls' = IF result.kind = "raise" THEN <<>>
                     ELSE <<<<call, clock, (clock + elapsed) - clock>>>>
    /\ timing_outcome' = [NoTimingOutcome EXCEPT !.op = "call", !.call = call, !.result = result]
    /\ sent' = Append(sent, [call |-> call, returned |-> result.kind = "return"])

\* The same, with last_calls.insert(0, ...) for last_calls.append(...).
TimingTransport_call_prepends(call, result, elapsed) ==
    /\ inner_calls' = Append(inner_calls, [call |-> call, result |-> result])
    /\ clock' = clock + elapsed
    /\ last_calls' = IF result.kind = "raise" THEN last_calls
                     ELSE <<<<call, clock, (clock + elapsed) - clock>>>> \o last_calls
    /\ timing_outcome' = [NoTimingOutcome EXCEPT !.op = "call", !.call = call, !.result = result]
    /\ sent' = Append(sent, [call |-> call, returned |-> result.kind = "return"])

\* The same, with the wrapped call in a try/except that records the timing
\* and returns None when the wrapped transport raises.
TimingTransport_call_swallows(call, result, elapsed) ==
    /\ inner_calls' = Append(inner_calls, [call |-> call, result |-> result])
    /\ clock' = clock + elapsed
    /\ last_calls' = Append(last_calls, <<call, clock, (clock + elapsed) - clock>>)
    /\ timing_outcome' = [NoTimingOutcome EXCEPT
                            !.op = "call", !.call = call,
                            !.result = IF result.kind = "raise" THEN ReturnValue(<<>>) ELSE result]
    /\ sent' = Append(sent, [call |-> call, returned |-> result.kind = "return"])

\* 344-352, when self.transport(call) ends as `result` after `elapsed`: an
\* exception leaves __call__ at line 348, before the append of line 351.
TimingTransport_call(call, result, elapsed) ==
    LET start_time == clock
        end_time == clock + elapsed
    IN  /\ inner_calls' = Append(inner_calls, [call |-> call, result |-> result])
        /\ clock' = end_time
        /\ last_calls' = IF result.kind = "raise"
                         THEN last_calls
                         ELSE Append(last_calls, <<call, start_time, end_time - start_time>>)
        /\ timing_outcome' = [NoTimingOutcome EXCEPT !.op = "call", !.call = call, !.result = result]
        /\ sent' = Append(sent, [call |-> call, returned |-> result.kind = "return"])

\* 354-362
get_last_calls ==
    /\ timing_outcome' = [NoTimingOutcome EXCEPT !.op = "get_last_calls", !.value = last_calls]
    /\ last_calls' = <<>>
    /\ sent' = <<>>
    /\ UNCHANGED <<inner_calls, clock>>

InitTiming ==
    /\ last_calls = <<>>
    /\ inner_calls = <<>>
    /\ timing_outcome = NoTimingOutcome
    /\ sent = <<>>
    /\ clock = 0
    /\ threads = NoThreads
    /\ SendIdle
    /\ MaskIdle

TimingSend ==
    /\ Len(inner_calls) < MaxCalls
    /\ \E call \in TimingCalls, result \in TransportOutcomes, elapsed \in 0..MaxElapsed :
            TimingTransport_call(call, result, elapsed)
    /\ UNCHANGED threads
    /\ UNCHANGED sendVars
    /\ UNCHANGED maskVars

TimingGet ==
    /\ get_last_calls
    /\ UNCHANGED threads
    /\ UNCHANGED sendVars
    /\ UNCHANGED maskVars

NextTiming == TimingSend \/ TimingGet

SpecTiming == InitTiming /\ [][NextTiming]_vars

(***************************************************************************)
(* FixtureTransport (transports.py 365-377).  FixtureModules stands for    *)
(* the SoftLayer.fixtures package: the modules that can be imported, each  *)
(* with its attributes.                                                    *)
(***************************************************************************)
FixtureModules ==
    [SoftLayer_Account |->
        [getObject |-> "fixture:Account.getObject",
         createObject |-> "fixture:Account.createObject",
         editObject |-> "fixture:Account.editObject"],
     SoftLayer_Virtual_DedicatedHost |->
        [getObject |-> "fixture:DedicatedHost.getObject",
         deleteObject |-> "fixture:DedicatedHost.deleteObject"]]

FixtureServices == {"SoftLayer_Account", "SoftLayer_Virtual_DedicatedHost", "SoftLayer_Missing"}

FixtureRequests ==
    {[BaseRequest EXCEPT !.service = s, !.method = m, !.args = a] :
        s \in FixtureServices, m \in Methods, a \in ArgTuples}

\* The same without the try/except of lines 374-377 around getattr.
FixtureOutcome_attributeerror(call) ==
    IF call.service \notin DOMAIN FixtureModules
    THEN Uncaught("NotImplementedError")
    ELSE IF call.method \notin DOMAIN FixtureModules[call.service]
         THEN Uncaught("AttributeError")
         ELSE ReturnValue(<<FixtureModules[call.service][call.method]>>)

\* 369-377: import_module raises ImportError for a module that is not
\* there, getattr raises AttributeError for an attribute that is not.
FixtureOutcome(call) ==
    IF call.service \notin DOMAIN FixtureModules
    THEN Uncaught("NotImplementedError")
    ELSE IF call.method \notin DOMAIN FixtureModules[call.service]
         THEN Uncaught("NotImplementedError")
         ELSE ReturnValue(<<FixtureModules[call.service][call.method]>>)

InitFixture ==
    /\ request \in FixtureRequests
    /\ response = NoResponse
    /\ wire = NoWire
    /\ outcome = NoOutcome
    /\ NoSessions
    /\ MaskIdle
    /\ TimingIdle

\* FixtureTransport.__call__(request): no client, no request.
FixtureTransport_call ==
    /\ outcome' = FixtureOutcome(request)
    /\ UNCHANGED <<request, response, wire, transports, sessions, conn>>

FixtureSend ==
    /\ FixtureTransport_call
    /\ UNCHANGED maskVars
    /\ UNCHANGED timingVars

NextFixture == FixtureSend

SpecFixture == InitFixture /\ [][NextFixture]_vars

(***************************************************************************)
(* Specification SpecSession: one client.request of a client get_session   *)
(* built, followed attempt by attempt.  The adapter mounted on the prefix  *)
(* of the endpoint URL retries as its Retry tells (transports.py 51-53):   *)
(* a connection error takes one from `total` and from `connect`, and the   *)
(* request is given up when a count falls below zero.  A response whose    *)
(* status is not in status_forcelist is returned as it is.                 *)
(***************************************************************************)
Prefixes == {"https://", "http://"}

SessionResponses ==
    {ValueResponse("xmlrpc"), ValueResponse("json"), Garbage(500), Garbage(503),
     ErrorResponse(404, "not found"), FaultResponse(500, PyStr("-32601"), "fault-a")}

\* Retry.increment for a connection error.
RetryIncrement(retry) ==
    [retry EXCEPT !.total = @ - 1,
                  !.connect = IF @ = None THEN None ELSE Some(@[1] - 1)]

\* Retry.is_exhausted
RetryIsExhausted(retry) ==
    retry.total < 0 \/ (retry.connect # None /\ retry.connect[1] < 0)

\* How the transport `via` ends the call for what client.request gave.
TransportOutcome(via, resp) ==
    IF via = "xmlrpc" THEN XmlRpcOutcome(resp) ELSE RestOutcome(resp)

InitSession ==
    /\ request = BaseRequest
    /\ response \in SessionResponses
    /\ wire = NoWire
    /\ outcome = NoOutcome
    /\ sessions = <<get_session(UserAgent)>>
    /\ \E via \in {"xmlrpc", "rest"}, prefix \in Prefixes :
         /\ transports = [t \in {"xmlrpc", "rest"} |->
                            IF t = via THEN client(Transport(TRUE), 1) ELSE Transport(TRUE)]
         /\ conn = [NoConn EXCEPT !.via = via, !.prefix = prefix]
    /\ MaskIdle
    /\ TimingIdle

\* self.client.request(...) (183, 309): the adapter for the URL is chosen.
ClientRequest ==
    /\ conn.phase = "idle"
    /\ LET retry == sessions[transports[conn.via]._client[1]].adapters[conn.prefix]
       IN  conn' = [conn EXCEPT !.phase = "connecting",
                                !.retry = [total |-> retry.total, connect |-> retry.connect]]
    /\ UNCHANGED <<request, response, wire, outcome, transports, sessions>>
    /\ UNCHANGED maskVars
    /\ UNCHANGED timingVars

\* A connection attempt fails: retried, or given up as a ConnectionError,
\* which is a RequestException (218-219, 333-334).
ConnectFails ==
    /\ conn.phase = "connecting"
    /\ LET retry == RetryIncrement(conn.retry)
       IN  IF RetryIsExhausted(retry)
           THEN /\ conn' = [conn EXCEPT !.phase = "done", !.retry = retry, !.attempts = @ + 1]
                /\ outcome' = TransportOutcome(conn.via, NetworkFailure)
           ELSE /\ conn' = [conn EXCEPT !.retry = retry, !.attempts = @ + 1]
                /\ UNCHANGED outcome
    /\ UNCHANGED <<request, response, wire, transports, sessions>>
    /\ UNCHANGED maskVars
    /\ UNCHANGED timingVars

\* A connection attempt succeeds and the endpoint answers.
ConnectSucceeds ==
    /\ conn.phase = "connecting"
    /\ LET adapter == sessions[transports[conn.via]._client[1]].adapters[conn.prefix]
       IN  IF response.status \in adapter.status_forcelist
           THEN /\ conn' = [conn EXCEPT !.attempts = @ + 1, !.responses = @ + 1]
                /\ UNCHANGED outcome
           ELSE /\ conn' = [conn EXCEPT !.phase = "done", !.attempts = @ + 1,
                                        !.responses = @ + 1]
                /\ outcome' = TransportOutcome(conn.via, response)
    /\ UNCHANGED <<request, response, wire, transports, sessions>>
    /\ UNCHANGED maskVars
    /\ UNCHANGED timingVars

NextSession == ClientRequest \/ ConnectFails \/ ConnectSucceeds

SpecSession == InitSession /\ [][NextSession]_vars

(***************************************************************************)
(* Specification SpecThreads: threads of one caller share a                *)
(* TimingTransport (transports.py 344-362).  Neither method takes a lock,  *)
(* so a thread may be switched out between two steps of a method:          *)
(*   __call__        evaluates self.last_calls (351), then appends to the  *)
(*                   list object it got;                                   *)
(*   get_last_calls  reads self.last_calls (360), binds self.last_calls    *)
(*                   to a new list (361), returns the list it read (362).  *)
(***************************************************************************)
InitThreads ==
    /\ threads = NoThreads
    /\ last_calls = <<>>
    /\ inner_calls = <<>>
    /\ timing_outcome = NoTimingOutcome
    /\ sent = <<>>
    /\ clock = 0
    /\ SendIdle
    /\ MaskIdle

\* 346-351: the wrapped transport has returned, the record is built and
\* self.last_calls is evaluated.
ThreadCallLoad(t) ==
    /\ threads.pc[t] = "idle"
    /\ threads.calls < MaxThreadCalls
    /\ threads' = [threads EXCEPT !.pc[t] = "append",
                                  !.local[t] = threads.last_calls,
                                  !.record[t] = threads.calls + 1,
                                  !.calls = @ + 1]

\* 351-352: .append(record) on the list object evaluated, and return.
ThreadCallAppend(t) ==
    /\ threads.pc[t] = "append"
    /\ threads' = [threads EXCEPT !.pc[t] = "idle",
                                  !.heap[threads.local[t]] = Append(@, threads.record[t]),
                                  !.completed = @ \cup {threads.record[t]},
                                  !.local[t] = 0,
                                  !.record[t] = 0]

\* 360: last_calls = self.last_calls
ThreadGetLoad(t) ==
    /\ threads.pc[t] = "idle"
    /\ threads.retrievals < MaxThreadRetrievals
    /\ threads' = [threads EXCEPT !.pc[t] = "clear",
                                  !.local[t] = threads.last_calls,
                                  !.retrievals = @ + 1]

\* 361: self.last_calls = []
ThreadGetClear(t) ==
    /\ threads.pc[t] = "clear"
    /\ threads' = [threads EXCEPT !.pc[t] = "return",
                                  !.heap = Append(@, <<>>),
                                  !.last_calls = Len(threads.heap) + 1]

\* 362: return last_calls; `returned` keeps each result as it is when the
\* retrieval returns, with the list object it is.
ThreadGetReturn(t) ==
    /\ threads.pc[t] = "return"
    /\ threads' = [threads EXCEPT !.pc[t] = "idle",
                                  !.local[t] = 0,
                                  !.returned = Append(@, [object |-> threads.local[t],
                                                          value |-> threads.heap[threads.local[t]]])]

\* A step of a thread leaves everything else as it is.
ThreadsOnly ==
    /\ UNCHANGED <<last_calls, inner_calls, timing_outcome, sent, clock>>
    /\ UNCHANGED sendVars
    /\ UNCHANGED maskVars

NextThreads ==
    \/ \E t \in Threads : ThreadCallLoad(t) /\ ThreadsOnly
    \/ \E t \in Threads : ThreadCallAppend(t) /\ ThreadsOnly
    \/ \E t \in Threads : ThreadGetLoad(t) /\ ThreadsOnly
    \/ \E t \in Threads : ThreadGetClear(t) /\ ThreadsOnly
    \/ \E t \in Threads : ThreadGetReturn(t) /\ ThreadsOnly

SpecThreads == InitThreads /\ [][NextThreads]_vars

(***************************************************************************)
(*                             The properties                              *)
(***************************************************************************)

\* The last call went through XmlRpcTransport / RestTransport and the
\* endpoint answered with a body that transport can decode, with a status
\* raise_for_status accepts.
XmlRpcDecoded ==
    /\ wire.transport = "xmlrpc"
    /\ response.net = "ok" /\ ~RaisesForStatus(response) /\ response.format = "xmlrpc"

RestDecoded ==
    /\ wire.transport = "rest"
    /\ response.net = "ok" /\ ~RaisesForStatus(response) /\ response.format = "json"

\* The fault mapping table as the claim gives it: numeric code -> error kind.
TableKind(n) ==
    CASE n = -32700 -> "NotWellFormed"
      [] n = -32701 -> "UnsupportedEncoding"
      [] n = -32702 -> "InvalidCharacter"
      [] n = -32600 -> "SpecViolation"
      [] n = -32601 -> "MethodNotFound"
      [] n = -32602 -> "InvalidMethodParameters"
      [] n = -32603 -> "InternalError"
      [] n = -32500 -> "ApplicationError"
      [] n = -32400 -> "RemoteSystemError"
      [] n = -32300 -> "TransportError"
      [] OTHER -> "SoftLayerAPIError"

\* The number a decoded fault code stands for: the int itself, or the int
\* a str code is the numeral of; None for a str that is no numeral.
FaultNumber(code) ==
    IF code.type = "int" THEN Some(code.int)
    ELSE IF \E n \in FaultCodeNumbers : ToString(n) = code.str
         THEN Some(CHOOSE n \in FaultCodeNumbers : ToString(n) = code.str)
         ELSE None

\* C1: for every fault response whose decoded fault code is one of the ten
\* table codes, XmlRpcTransport raises exactly the typed error the table
\* names, with the fault code and fault string of the response; for every
\* other fault code it raises SoftLayerAPIError with that code and string.
C1_FaultMapping ==
    (XmlRpcDecoded /\ response.type = "fault") =>
        /\ outcome.kind = "raise"
        /\ outcome.code = Some(response.code)
        /\ outcome.message = response.string
        /\ outcome.exc = IF FaultNumber(response.code) = None
                         THEN "SoftLayerAPIError"
                         ELSE TableKind(FaultNumber(response.code)[1])

\* The verb the claim gives for a method name sent without arguments.
TableVerb(method) ==
    CASE method = "deleteObject" -> "DELETE"
      [] method \in {"createObject", "createObjects"} -> "POST"
      [] method \in {"editObject", "editObjects"} -> "PUT"
      [] OTHER -> "GET"

\* C2: RestTransport sends POST with the body {parameters: args} whenever
\* args is non-empty, whatever the method name; with empty args it sends
\* DELETE for deleteObject, POST for createObject(s), PUT for editObject(s),
\* GET for any other method name, and no body.
C2_RestVerb ==
    wire.transport = "rest" =>
        IF request.args # <<>>
        THEN /\ wire.verb = "POST"
             /\ wire.data = Some([json |-> [parameters |-> request.args]])
        ELSE /\ wire.verb = TableVerb(request.method)
             /\ wire.data = None

C2_Witness ==
    /\ wire.transport = "rest"
    /\ request.method = "editObject"
    /\ request.args = <<"a", "b">>
    /\ wire.verb = "POST"

\* The offset a request asks the server for: the offset it carries, or 0
\* (the server's default) when it carries none.
XmlRpcWireHeaders == wire.largs[1].headers

XmlRpcEffectiveOffset ==
    IF "resultLimit" \in DOMAIN XmlRpcWireHeaders
    THEN XmlRpcWireHeaders["resultLimit"].offset
    ELSE 0

RestEffectiveOffset ==
    IF "offset" \in DOMAIN wire.params THEN wire.params["offset"] ELSE 0

RECURSIVE Pow10(_)
Pow10(n) == IF n = 0 THEN 1 ELSE 10 * Pow10(n - 1)

RECURSIVE PlaceValueFrom(_, _)
PlaceValueFrom(s, i) ==
    IF i > Len(s) THEN 0
    ELSE DigitValue(s[i]) * Pow10(Len(s) - i) + PlaceValueFrom(s, i + 1)

\* C5: for every successful list response on either transport the result is
\* a SoftLayerListResult whose items are the decoded list, with total_count 0
\* when the softlayer-total-items header is absent and the header's integer
\* value when it is present and numeric.
C5_TotalCount ==
    ((XmlRpcDecoded \/ RestDecoded) /\ response.type = "list") =>
        /\ response.total_items = None =>
              outcome = SoftLayerListResult(response.items, 0)
        /\ (response.total_items # None /\ IsDecimal(response.total_items[1])) =>
              outcome = SoftLayerListResult(response.items,
                                            PlaceValueFrom(response.total_items[1], 1))

C5_Witness ==
    /\ RestDecoded
    /\ response.total_items = Some(<<"1", "2">>)
    /\ outcome.type = "SoftLayerListResult"
    /\ outcome.total_count = 12
    /\ outcome.items = <<"item1", "item2">>

\* C6: for every successful list response whose softlayer-total-items
\* header is present but not numeric, the call returns a SoftLayerListResult
\* with total_count 0.
C6_NonNumericTotalIsZero ==
    ((XmlRpcDecoded \/ RestDecoded) /\ response.type = "list"
        /\ response.total_items # None /\ ~IsDecimal(response.total_items[1])) =>
        outcome = SoftLayerListResult(response.items, 0)

\* The input without its leading and trailing whitespace, said without
\* strip(): s[a+1 .. Len(s)-b] is the trim of s when the first a and the
\* last b characters of s are whitespace and what is between them neither
\* starts nor ends with whitespace.
IsTrimSplit(s, a, b) ==
    /\ a + b <= Len(s)
    /\ \A i \in 1..a : s[i] \in Whitespace
    /\ \A i \in (Len(s) - b + 1)..Len(s) : s[i] \in Whitespace
    /\ a + b < Len(s) => (s[a + 1] \notin Whitespace /\ s[Len(s) - b] \notin Whitespace)

MaskPrefix == <<"m", "a", "s", "k">>

Wrapped(s) == <<"m", "a", "s", "k", "[">> \o s \o <<"]">>

\* C4, as the claim states it: an input that does not start with 'mask' or
\* '[' comes back as "mask[" + input + "]", and an input that does comes back
\* unchanged, leading or trailing whitespace included.
C4_AsClaimed ==
    formatted # None =>
        IF ~startswith(objectmask, MaskPrefix) /\ ~startswith(objectmask, <<"[">>)
        THEN formatted[1] = Wrapped(objectmask)
        ELSE formatted[1] = objectmask

\* C4, amended: with t the input without its leading and trailing
\* whitespace, the result is "mask[" + t + "]" when t does not start with
\* 'mask' or '[', and t itself when it does.
C4_FormatObjectMask ==
    formatted # None =>
        \E a \in 0..Len(objectmask), b \in 0..Len(objectmask) :
            /\ IsTrimSplit(objectmask, a, b)
            /\ LET t == SubSeq(objectmask, a + 1, Len(objectmask) - b)
               IN  IF ~startswith(t, MaskPrefix) /\ ~startswith(t, <<"[">>)
                   THEN formatted[1] = Wrapped(t)
                   ELSE formatted[1] = t

C4_Witness ==
    /\ objectmask = <<" ", "m", "a", "s", "k">>
    /\ formatted = Some(<<"m", "a", "s", "k">>)

\* The descriptors of timing records, and of the sends that returned.
RecordCalls(records) == [i \in 1..Len(records) |-> records[i][1]]

SentCalls(entries) == [i \in 1..Len(entries) |-> entries[i].call]

IsPrefix(s, t) == Len(s) <= Len(t) /\ SubSeq(t, 1, Len(s)) = s

\* C7: after n sends that all returned, with no retrieval in between,
\* get_last_calls returns exactly n records, in the order of the sends, each
\* holding the descriptor of its send; a get_last_calls right after a
\* get_last_calls returns an empty list.
C7_RetrievalReturnsSends ==
    [][TimingGet =>
          /\ (\A i \in 1..Len(sent) : sent[i].returned) =>
                /\ Len(timing_outcome'.value) = Len(sent)
                /\ RecordCalls(timing_outcome'.value) = SentCalls(sent)
          /\ timing_outcome.op = "get_last_calls" => timing_outcome'.value = <<>>]_vars

C7_Witness ==
    /\ timing_outcome.op = "get_last_calls"
    /\ Len(timing_outcome.value) = 2
    /\ timing_outcome.value[1][1].method = "deleteObject"
    /\ timing_outcome.value[2][1].method = "getObject"

\* C8: with no retrieval since, the buffer holds exactly one record per send
\* made, the sends whose wrapped transport raised included.
C8_RecordPerSend == Len(last_calls) = Len(sent)

\* C9: a send, returning or raising, never removes or reorders records of
\* the buffer: the buffer before it is a prefix of the buffer after it, and
\* only get_last_calls takes records out.
C9_SendKeepsBuffer ==
    [][/\ TimingSend => IsPrefix(last_calls, last_calls')
       /\ ~IsPrefix(last_calls, last_calls') => TimingGet]_vars

C9_Witness ==
    /\ timing_outcome.op = "call"
    /\ timing_outcome.result.kind = "raise"
    /\ Len(last_calls) = 2

\* C10: a send through TimingTransport calls the wrapped transport exactly
\* once, with the same descriptor, and ends as that call ended: the same
\* value returned, or the same error raised.
C10_BehaviourPreserving ==
    [][TimingSend =>
          /\ Len(inner_calls') = Len(inner_calls) + 1
          /\ SubSeq(inner_calls', 1, Len(inner_calls)) = inner_calls
          /\ inner_calls'[Len(inner_calls')].call = timing_outcome'.call
          /\ timing_outcome'.op = "call"
          /\ timing_outcome'.result = inner_calls'[Len(inner_calls')].result]_vars

C10_Witness ==
    /\ timing_outcome.op = "call"
    /\ timing_outcome.result = Raise("TransportError", PyInt(0), "str(ex)")
    /\ inner_calls # <<>>
    /\ inner_calls[Len(inner_calls)].result = Raise("TransportError", PyInt(0), "str(ex)")

\* The (service, method) pairs that have a fixture, with the canned values.
HasFixture(service, method) ==
    \/ service = "SoftLayer_Account" /\ method \in {"getObject", "createObject", "editObject"}
    \/ service = "SoftLayer_Virtual_DedicatedHost" /\ method \in {"getObject", "deleteObject"}

\* C11: FixtureTransport returns exactly the canned value of a (service,
\* method) pair that has a fixture; for a service without a fixture module,
\* and for a method the service's module has no attribute for, it raises
\* NotImplementedError, no Transport or API error; it makes no HTTP request.
C11_Fixture ==
    outcome.kind # "none" =>
        /\ wire = NoWire
        /\ IF HasFixture(request.service, request.method)
           THEN outcome = ReturnValue(<<FixtureModules[request.service][request.method]>>)
           ELSE /\ outcome.kind = "raise"
                /\ outcome.exc = "NotImplementedError"

C11_Witness ==
    /\ request.service = "SoftLayer_Account"
    /\ request.method = "deleteObject"
    /\ outcome.kind = "raise"
    /\ outcome.exc = "NotImplementedError"
    /\ wire = NoWire

\* C12: a call of XmlRpcTransport or RestTransport leaves the Request as
\* it was handed in: headers, transport_headers and every other field have
\* the same contents after the call as before it.
C12_RequestNotMutated == [][request' = request]_vars

\* A status outside 200..299.
Non2xx(status) == status < 200 \/ status > 299

\* The statuses Response.raise_for_status raises for.
ErrorStatus(status) == status \in 400..599

RaisedWith(exc, code) ==
    outcome.kind = "raise" /\ outcome.exc = exc /\ outcome.code = Some(PyInt(code))

\* C13 as the claim states it: through XmlRpcTransport, every response with
\* a status outside 2xx raises TransportError carrying that status.
C13_AsClaimed ==
    (wire.transport = "xmlrpc" /\ response.net = "ok" /\ Non2xx(response.status))
        => RaisedWith("TransportError", response.status)

\* C13: through XmlRpcTransport, a response with a 4xx or 5xx status raises
\* TransportError whose code is that status, and a network failure raises
\* TransportError with code 0; in neither case is a value returned.
C13_XmlRpcFailures ==
    wire.transport = "xmlrpc" =>
        /\ (response.net = "ok" /\ ErrorStatus(response.status))
              => RaisedWith("TransportError", response.status)
        /\ response.net = "fail" => RaisedWith("TransportError", 0)

C13_Witness ==
    /\ wire.transport = "xmlrpc"
    /\ response.net = "ok" /\ response.status = 500
    /\ RaisedWith("TransportError", 500)

\* The body of the response is a JSON object with an 'error' entry.
JsonErrorBody == response.format = "json" /\ response.type = "error"

\* The call ended in the JSON decoder's failure, which is neither of the
\* transport's own errors.
DecodeFailure ==
    /\ outcome.kind = "raise" /\ outcome.exc = "ValueError"
    /\ outcome.exc \notin {"SoftLayerAPIError", "TransportError"}

\* What C13 and C14 say alike of a body no decoder reads and of a network
\* failure, through RestTransport.
RestUnparseableAndNetwork ==
    /\ (response.net = "ok" /\ Non2xx(response.status) /\ response.format # "json")
          => DecodeFailure
    /\ response.net = "fail" => RaisedWith("TransportError", 0)

\* C14 as the claim states it: through RestTransport, every response with a
\* status outside 2xx and a JSON error body raises SoftLayerAPIError with
\* the status and the error message; an unparseable body is a decode
\* failure; a network failure raises TransportError with code 0.
C14_AsClaimed ==
    wire.transport = "rest" =>
        /\ (response.net = "ok" /\ Non2xx(response.status) /\ JsonErrorBody)
              => (RaisedWith("SoftLayerAPIError", response.status)
                    /\ outcome.message = response.string)
        /\ RestUnparseableAndNetwork

\* C14: through RestTransport, a response with a 4xx or 5xx status and a
\* JSON error body raises SoftLayerAPIError with the status and the error
\* message; a response outside 2xx whose body is not JSON ends in the
\* decoder's failure, not in SoftLayerAPIError or TransportError; a network
\* failure raises TransportError with code 0.
C14_RestFailures ==
    wire.transport = "rest" =>
        /\ (response.net = "ok" /\ ErrorStatus(response.status) /\ JsonErrorBody)
              => (RaisedWith("SoftLayerAPIError", response.status)
                    /\ outcome.message = response.string)
        /\ RestUnparseableAndNetwork

C14_Witness ==
    /\ wire.transport = "rest"
    /\ response.net = "ok" /\ response.status = 404 /\ JsonErrorBody
    /\ RaisedWith("SoftLayerAPIError", 404) /\ outcome.message = "not found"

TransportNames == {"xmlrpc", "rest"}

\* The transport instances that hold a client.
ClientHolders == {t \in TransportNames : transports[t]._client # None}

\* C15: an XmlRpcTransport or RestTransport instance holds no client before
\* its first use; a call that reaches client.request makes its request
\* through the client the instance holds; a client an instance holds is
\* never replaced; and get_session has built exactly one client per
\* instance that holds one.  (A RestTransport call with a dict mask ends
\* before it reaches the client.)
C15_LazyClient ==
    [][/\ outcome = NoOutcome => (ClientHolders = {} /\ sessions = <<>>)
       /\ \A t \in TransportNames :
            /\ transports[t]._client # None
                  => transports'[t]._client = transports[t]._client
            /\ wire'.transport = t
                  => (wire'.client # None /\ wire'.client = transports'[t]._client)
       /\ Len(sessions') = Cardinality({t \in TransportNames : transports'[t]._client # None})
       /\ \A t, u \in TransportNames :
            (t # u /\ transports'[t]._client # None)
                => transports'[t]._client # transports'[u]._client
      ]_vars

\* Both instances hold a client and the last call, through XmlRpcTransport,
\* raised.
C15_Witness ==
    /\ ClientHolders = TransportNames
    /\ Len(sessions) = 2
    /\ wire.transport = "xmlrpc" /\ wire.client = transports.xmlrpc._client
    /\ outcome.kind = "raise"
    /\ request.transport_headers # EmptyDict

\* What C16 says alike in both readings: a request given up without a
\* response raises TransportError with code 0, and a request that got a
\* response, an HTTP error included, is not made again.
GivenUpAndNoStatusRetry ==
    /\ (conn.phase = "done" /\ conn.responses = 0) => RaisedWith("TransportError", 0)
    /\ conn.responses <= 1
    /\ conn.responses = 1 => conn.phase = "done"

\* C16 as the claim states it: one client.request makes at most 3
\* connection attempts.
C16_AsClaimed ==
    /\ conn.attempts <= 3
    /\ GivenUpAndNoStatusRetry

\* C16: through a client get_session built, one client.request to an
\* https:// URL makes at most 4 connection attempts (the first and 3
\* retries) and one to an http:// URL makes 1; a request given up after
\* that raises TransportError with code 0; a request that connects and
\* gets an HTTP error response is not retried.
C16_ConnectionRetries ==
    /\ conn.prefix = "https://" => conn.attempts <= 4
    /\ conn.prefix = "http://" => conn.attempts <= 1
    /\ (conn.phase = "done" /\ conn.responses = 0)
          => conn.attempts = (IF conn.prefix = "https://" THEN 4 ELSE 1)
    /\ GivenUpAndNoStatusRetry

\* Four attempts to connect to an https:// endpoint failed.
C16_Witness ==
    /\ conn.prefix = "https://" /\ conn.phase = "done"
    /\ conn.attempts = 4 /\ conn.responses = 0
    /\ RaisedWith("TransportError", 0)

\* C17: _format_object_mask applied to a string it returned returns that
\* string: _format_object_mask(_format_object_mask(m)) = _format_object_mask(m).
C17_Idempotent ==
    [][formatted # None => (objectmask' = formatted[1] /\ formatted' = formatted)]_vars

\* A wrapped mask, longer than any first argument, went through a second
\* call and came back as it was.
C17_Witness ==
    /\ Len(objectmask) > MaxMaskLen
    /\ startswith(objectmask, <<"m", "a", "s", "k", "[">>)
    /\ formatted = Some(objectmask)

\* C18: in the headers XmlRpcTransport sends, a str mask gives the entry
\* SoftLayer_ObjectMask = {mask: the formatted mask} ('id' gives
\* 'mask[id]') and no <service>ObjectMask entry; a dict mask gives the
\* entry <service>ObjectMask = {mask: the dict as it is} and no
\* SoftLayer_ObjectMask entry; no mask gives neither entry.
C18_MaskHeader ==
    wire.transport = "xmlrpc" =>
        LET serviceKey == request.service \o "ObjectMask"
            keys == DOMAIN XmlRpcWireHeaders
        IN  IF request.mask = None
            THEN "SoftLayer_ObjectMask" \notin keys /\ serviceKey \notin keys
            ELSE IF request.mask[1].type = "str"
            THEN /\ "SoftLayer_ObjectMask" \in keys
                 /\ XmlRpcWireHeaders["SoftLayer_ObjectMask"]
                        = [mask |-> StrMask(_format_object_mask(request.mask[1].str))]
                 /\ request.mask[1].str = <<"i", "d">>
                       => XmlRpcWireHeaders["SoftLayer_ObjectMask"].mask.str
                              = <<"m", "a", "s", "k", "[", "i", "d", "]">>
                 /\ serviceKey \notin keys
            ELSE /\ serviceKey \in keys
                 /\ XmlRpcWireHeaders[serviceKey] = [mask |-> request.mask[1]]
                 /\ "SoftLayer_ObjectMask" \notin keys

C18_Witness ==
    /\ wire.transport = "xmlrpc"
    /\ request.mask = Some(StrMask(<<"i", "d">>))
    /\ "SoftLayer_ObjectMask" \in DOMAIN XmlRpcWireHeaders
    /\ XmlRpcWireHeaders["SoftLayer_ObjectMask"].mask.str = <<"m", "a", "s", "k", "[", "i", "d", "]">>

\* C19: through XmlRpcTransport and RestTransport alike, the verify value
\* given to client.request is the Request's verify whenever that is not
\* None, and the transport instance's verify exactly when it is None.
C19_VerifyOverride ==
    \A t \in TransportNames :
        wire.transport = t =>
            /\ request.verify # None => wire.verify = request.verify[1]
            /\ request.verify = None => wire.verify = transports[t].verify
            /\ wire.verify # transports[t].verify => request.verify # None

\* A Request with verify False went through a RestTransport built with
\* verify True, and verification was off.
C19_Witness ==
    /\ wire.transport = "rest"
    /\ transports.rest.verify = TRUE
    /\ request.verify = Some(FALSE)
    /\ wire.verify = FALSE

\* A Request with verify True went through an XmlRpcTransport built with
\* verify False, and verification was on.
C19_WitnessEnable ==
    /\ wire.transport = "xmlrpc"
    /\ transports.xmlrpc.verify = FALSE
    /\ request.verify = Some(TRUE)
    /\ wire.verify = TRUE

\* C20: what XmlRpcTransport sends is a POST to <endpoint>/<service> of the
\* call `method` whose parameters are {headers: the merged headers} followed
\* by the Request's args in their order; the headers hold
\* <service>InitParameters = {id: identifier} exactly when identifier is not
\* None and <service>ObjectFilter = filter exactly when filter is not None.
C20_WireFraming ==
    wire.transport = "xmlrpc" =>
        LET initKey == request.service \o "InitParameters"
            filterKey == request.service \o "ObjectFilter"
        IN  /\ wire.verb = "POST"
            /\ wire.url = XmlRpcEndpoint \o "/" \o request.service
            /\ wire.methodname = request.method
            /\ Len(wire.largs) = 1 + Len(request.args)
            /\ DOMAIN wire.largs[1] = {"headers"}
            /\ XmlRpcWireHeaders = request.headers
            /\ \A i \in 1..Len(request.args) : wire.largs[i + 1] = request.args[i]
            /\ initKey \in DOMAIN XmlRpcWireHeaders <=> request.identifier # None
            /\ request.identifier # None
                  => XmlRpcWireHeaders[initKey] = [id |-> request.identifier[1]]
            /\ filterKey \in DOMAIN XmlRpcWireHeaders <=> request.filter # None
            /\ request.filter # None => XmlRpcWireHeaders[filterKey] = request.filter[1]

\* A call with two args.
C20_Witness ==
    /\ wire.transport = "xmlrpc"
    /\ Len(request.args) = 2 /\ request.args[1] # request.args[2]
    /\ Len(wire.largs) = 3
    /\ wire.largs[2] = request.args[1] /\ wire.largs[3] = request.args[2]

\* A call with identifier 0 and an empty filter, both sent.
C20_WitnessHeaders ==
    /\ wire.transport = "xmlrpc"
    /\ request.identifier = Some(0) /\ request.filter = Some(EmptyDict)
    /\ XmlRpcWireHeaders["SoftLayer_AccountInitParameters"] = [id |-> 0]
    /\ "SoftLayer_AccountObjectFilter" \in DOMAIN XmlRpcWireHeaders

\* Is x an element of the sequence s?
InSeq(x, s) == \E i \in 1..Len(s) : s[i] = x

\* The retrievals whose result, as it was when they returned, holds record r.
RetrievalsHolding(r) == {i \in 1..Len(threads.returned) : InSeq(r, threads.returned[i].value)}

\* No thread is inside a method of the TimingTransport.
ThreadsIdle == \A t \in Threads : threads.pc[t] = "idle"

\* C21: with calls and retrievals of several threads interleaved on one
\* TimingTransport, once every method has returned, the record of each
\* completed call is either still in self.last_calls or in the result of
\* exactly one retrieval as it was when that retrieval returned, never in
\* both and never in none, and no list a retrieval returned has grown since.
C21_AtomicRetrieval ==
    ThreadsIdle =>
        /\ \A r \in threads.completed :
              Cardinality(RetrievalsHolding(r))
                + (IF InSeq(r, threads.heap[threads.last_calls]) THEN 1 ELSE 0) = 1
        /\ \A i \in 1..Len(threads.returned) :
              threads.returned[i].object # threads.last_calls
                 => threads.heap[threads.returned[i].object] = threads.returned[i].value

\* The header names XmlRpcTransport derives for a service.
XmlRpcDerivedKeys(service) ==
    {"SoftLayer_ObjectMask", service \o "ObjectMask", service \o "InitParameters",
     service \o "ObjectFilter", "resultLimit"}

\* C22: the query parameters RestTransport sends hold the caller's own
\* headers (none, for every Request built here) and objectMask, limit,
\* offset and objectFilter only, whatever was sent before: no header name
\* XmlRpcTransport derives is among them.
C22_RestParamsIndependent ==
    wire.transport = "rest" =>
        /\ DOMAIN wire.params \cap XmlRpcDerivedKeys(request.service) = {}
        /\ DOMAIN wire.params \subseteq {"objectMask", "limit", "offset", "objectFilter"}

\* C23: on both transports an offset is sent only together with a limit
\* (inside resultLimit through XmlRpcTransport, as the query parameters
\* offset and limit through RestTransport), and a Request with an offset
\* and no limit sends neither.
C23_PaginationTogether ==
    /\ wire.transport = "xmlrpc" =>
          /\ "resultLimit" \in DOMAIN XmlRpcWireHeaders
                => DOMAIN XmlRpcWireHeaders["resultLimit"] = {"limit", "offset"}
          /\ (request.offset # None /\ request.limit = None)
                => "resultLimit" \notin DOMAIN XmlRpcWireHeaders
    /\ wire.transport = "rest" =>
          /\ "offset" \in DOMAIN wire.params => "limit" \in DOMAIN wire.params
          /\ (request.offset # None /\ request.limit = None)
                => ("offset" \notin DOMAIN wire.params /\ "limit" \notin DOMAIN wire.params)

\* The call ended in the error made from the fault envelope of the body.
FaultRaised ==
    /\ outcome.kind = "raise"
    /\ response.net = "ok" /\ response.format = "xmlrpc" /\ response.type = "fault"
    /\ outcome.code = Some(response.code) /\ outcome.message = response.string

\* C24 as the claim states it: through XmlRpcTransport every response with
\* a status outside 2xx raises TransportError with that status, a fault
\* envelope in the body or not; the error of a fault is raised for 2xx
\* responses only; a status failure never has code 0.
C24_AsClaimed ==
    (wire.transport = "xmlrpc" /\ response.net = "ok") =>
        /\ Non2xx(response.status) =>
              (RaisedWith("TransportError", response.status)
                 /\ outcome.code # Some(PyInt(0)))
        /\ FaultRaised => ~Non2xx(response.status)

\* C24: through XmlRpcTransport every response with a 4xx or 5xx status
\* raises TransportError with that status, a fault envelope in the body or
\* not, and never with code 0; the error of a fault is raised only for
\* responses whose status is not 4xx or 5xx.
C24_StatusBeforeDecode ==
    (wire.transport = "xmlrpc" /\ response.net = "ok") =>
        /\ ErrorStatus(response.status) =>
              (RaisedWith("TransportError", response.status)
                 /\ outcome.code # Some(PyInt(0))
                 /\ ~FaultRaised)
        /\ FaultRaised => ~ErrorStatus(response.status)

\* A 500 response carrying a fault envelope raised TransportError(500).
C24_Witness ==
    /\ wire.transport = "xmlrpc"
    /\ response.net = "ok" /\ response.status = 500
    /\ response.format = "xmlrpc" /\ response.type = "fault"
    /\ RaisedWith("TransportError", 500)
    /\ outcome.message # response.string

=============================================================================
